---- MODULE Spec2Model ----
(***************************************************************************)
(* A model of paddlenlp/transformers/utils.py:                             *)
(*   - fn_args_to_dict          (the merge of positional values, declared  *)
(*                               defaults and keyword arguments),          *)
(*   - InitTrackerMeta          (the constructor wrapper that runs the     *)
(*                               hooks and attaches init_config),          *)
(*   - adapt_stale_fwd_patch    (the adaptation of a patched forward).     *)
(* Python dicts are functions from strings; dict.update, zip and pop are   *)
(* the operators below.  Three specifications share the variables: SpecFn  *)
(* applies fn_args_to_dict to bounded inputs, Spec runs constructions of   *)
(* instrumented classes, SpecFwd runs class-level attribute assignments    *)
(* and calls of forward.                                                   *)
(***************************************************************************)
EXTENDS Integers, Sequences, FiniteSets, TLC

VARIABLES fn_in, fn_out, fn_pc,
          stack, inst, call, log, status, attached,
          clsAttrs, declared, sets, last

fnVars   == <<fn_in, fn_out, fn_pc>>
initVars == <<stack, inst, call, log, status, attached>>
fwdVars  == <<clsAttrs, declared, sets, last>>
vars     == <<fn_in, fn_out, fn_pc, stack, inst, call, log, status, attached,
              clsAttrs, declared, sets, last>>

(***************************************************************************)
(* Python dict and sequence helpers                                        *)
(***************************************************************************)
EmptyDict == [k \in {} |-> 0]

Min(a, b) == IF a < b THEN a ELSE b

\* dict(zip(names, values)): pairs up to the shorter length; names are distinct
ZipDict(names, values) ==
  LET n == Min(Len(names), Len(values))
  IN  [k \in {names[i] : i \in 1..n} |->
         values[CHOOSE i \in 1..n : names[i] = k]]

\* d.update(e): e's entries replace or extend d's
DictUpdate(d, e) ==
  [k \in (DOMAIN d) \cup (DOMAIN e) |-> IF k \in DOMAIN e THEN e[k] ELSE d[k]]

\* d with the keys of S popped (pop(k, None): absence ignored)
DictPop(d, S) == [k \in (DOMAIN d) \ S |-> d[k]]

\* seq[-n:] for 1 <= n
LastN(seq, n) ==
  IF n >= Len(seq) THEN seq ELSE SubSeq(seq, Len(seq) - n + 1, Len(seq))

\* all sequences over S of length 0..n
RECURSIVE SeqsUpTo(_, _)
SeqsUpTo(S, n) ==
  IF n = 0 THEN {<<>>}
  ELSE LET shorter == SeqsUpTo(S, n - 1)
       IN  shorter \cup {Append(s, x) : s \in {t \in shorter : Len(t) = n - 1}, x \in S}

\* all dicts with keys among Names and values in Vals
DictsOver(Names, Vals) == UNION {[D -> Vals] : D \in SUBSET Names}

(***************************************************************************)
(* fn_args_to_dict                                                         *)
(***************************************************************************)
\* line 44: the default layer, guarded by `if spec_defaults`
DefaultsDict(spec_args, spec_defaults) ==
  IF spec_defaults # <<>>
  THEN ZipDict(LastN(spec_args, Len(spec_defaults)), spec_defaults)
  ELSE EmptyDict

\* a slip: the defaults already filled positionally are not popped
KeepAllDefaults(init_dict, kwargs_dict) == kwargs_dict

\* lines 45-47: defaults whose name was filled positionally are popped
PopFilled(init_dict, kwargs_dict) == DictPop(kwargs_dict, DOMAIN init_dict)

fn_args_to_dict(spec_args, spec_defaults, args, kwargs) ==
  LET init_dict    == ZipDict(spec_args, args)
      kwargs_dict0 == DefaultsDict(spec_args, spec_defaults)
      kwargs_dict1 == PopFilled(init_dict, kwargs_dict0)
      kwargs_dict2 == DictUpdate(kwargs_dict1, kwargs)
  IN  DictUpdate(init_dict, kwargs_dict2)

(***************************************************************************)
(* The instrumented classes the model constructs.  Each is what            *)
(* InitTrackerMeta.__init__(cls, name, bases, attrs) receives: its name,   *)
(* its base and the names its body declares.                               *)
(*   class M(Layer):  __init__(self, a, b=2, c=3), _pre_init, _post_init   *)
(*   class Sub(M):    __init__(self, a, c=3): super().__init__(a, c=c)     *)
(*   class Inh(M):    declares nothing (inherits the constructor)          *)
(*   class Deep(Inh): declares nothing                                     *)
(***************************************************************************)
Classes == {"M", "Sub", "Inh", "Deep"}

Base == [c \in Classes |->
           CASE c = "M"    -> "Layer"
             [] c = "Sub"  -> "M"
             [] c = "Inh"  -> "M"
             [] c = "Deep" -> "Inh"]

Attrs == [c \in Classes |->
            CASE c = "M"    -> {"__init__", "_pre_init", "_post_init"}
              [] c = "Sub"  -> {"__init__"}
              [] c = "Inh"  -> {}
              [] c = "Deep" -> {}]

\* the declared parameters (after self) of the constructors the classes declare
Sig == [c \in {"M", "Sub"} |->
          IF c = "M" THEN [args |-> <<"a", "b", "c">>, defaults |-> <<2, 3>>]
                     ELSE [args |-> <<"a", "c">>,      defaults |-> <<3>>]]

\* the arguments Sub's constructor passes to super().__init__
SuperArgs(c, bound)   == <<bound["a"]>>
SuperKwargs(c, bound) == [k \in {"c"} |-> bound["c"]]
CallsSuper(c) == c = "Sub"

\* getattr(cls, name, None): the class along the bases that declares name
RECURSIVE GetAttr(_, _)
GetAttr(c, name) ==
  IF c = "Layer" THEN "None"
  ELSE IF name \in Attrs[c] THEN c
  ELSE GetAttr(Base[c], name)

\* lines 140-141: the hooks are captured only when attrs has __init__
HookOf(c, name) == IF "__init__" \in Attrs[c] THEN GetAttr(c, name) ELSE "None"

pre_init_func(c)  == HookOf(c, "_pre_init")
post_init_func(c) == HookOf(c, "_post_init")

\* line 136: init_func = cls.__init__, read before the wrapper is installed: the
\* body the class declares, else the wrapper line 142 installed on its base
init_func(c) ==
  IF "__init__" \in Attrs[c] THEN [kind |-> "body", cls |-> c]
  ELSE [kind |-> "wrap", cls |-> Base[c]]

\* a slip: the post-hook is run before the original constructor
ImplStepsPostFirst(c) ==
  (IF pre_init_func(c) # "None" THEN <<"pre">> ELSE <<>>)
  \o (IF post_init_func(c) # "None" THEN <<"post">> ELSE <<>>)
  \o <<"init", "attach">>

\* lines 165-177: the statements of __impl__, in order
ImplSteps(c) ==
  (IF pre_init_func(c) # "None" THEN <<"pre">> ELSE <<>>)
  \o <<"init">>
  \o (IF post_init_func(c) # "None" THEN <<"post">> ELSE <<>>)
  \o <<"attach">>

\* a slip: the record is built by merging the positional values by name
InitConfigMerged(args, kwargs, self_class) ==
  LET root == IF self_class = "Sub" THEN "Sub" ELSE "M"
  IN  ("init_class" :> self_class)
      @@ fn_args_to_dict(Sig[root].args, Sig[root].defaults, args, kwargs)

\* a slip: init_args is written also when args is empty
InitConfigAlwaysArgs(args, kwargs, self_class) ==
  ("init_class" :> self_class) @@ ("init_args" :> args) @@ kwargs

\* lines 174-177: the record is the kwargs dict, to which init_args (when args
\* is not empty) and init_class are then written
InitConfig(args, kwargs, self_class) ==
  LET k1 == IF args # <<>> THEN ("init_args" :> args) @@ kwargs ELSE kwargs
  IN  ("init_class" :> self_class) @@ k1

\* Python's binding of a call's arguments to a declared signature (the call of
\* init_func at line 170 raises TypeError when it fails)
BindOk(sig, args, kwargs) ==
  LET names == {sig.args[i] : i \in 1..Len(sig.args)}
      k     == Len(sig.args)
      d     == Len(sig.defaults)
      p     == Len(args)
  IN  /\ p <= k
      /\ DOMAIN kwargs \subseteq names
      /\ \A i \in 1..p : sig.args[i] \notin DOMAIN kwargs
      /\ \A i \in (p + 1)..(k - d) : sig.args[i] \in DOMAIN kwargs

\* what the hooks of class M do to the instance: count their runs
HookEffect(attrs, name) ==
  (name :> (IF name \in DOMAIN attrs THEN attrs[name] + 1 ELSE 1)) @@ attrs

Frame(kind, c, args, kwargs) ==
  [kind |-> kind, cls |-> c, pc |-> 1, args |-> args, kwargs |-> kwargs]

Event(f, depth, step) ==
  [depth |-> depth, cls |-> f.cls, kind |-> f.kind, step |-> step,
   args |-> f.args, kwargs |-> f.kwargs]

Top   == stack[Len(stack)]
Depth == Len(stack)
Step  == IF Top.kind = "wrap" /\ Top.pc <= Len(ImplSteps(Top.cls))
         THEN ImplSteps(Top.cls)[Top.pc] ELSE "none"
Advance(s) == [s EXCEPT ![Len(s)].pc = @ + 1]
Pop(s)     == SubSeq(s, 1, Len(s) - 1)

(***************************************************************************)
(* Bounds and inputs of the construction calls                             *)
(***************************************************************************)
MaxCallArgs == 2
ArgVals  == {1, 9}
KwNames  == {"a", "c", "z"}

NoCall == [cls |-> "None", args |-> <<>>, kwargs |-> EmptyDict]

InitIdle ==
  /\ stack = <<>>
  /\ inst = EmptyDict
  /\ call = NoCall
  /\ log = <<>>
  /\ status = "idle"
  /\ attached = 0

\* cls(*args, **kwargs): a new instance, then cls.__init__ (the wrapper of cls)
Construct(c, args, kwargs) ==
  /\ status = "idle"
  /\ stack' = <<Frame("wrap", c, args, kwargs)>>
  /\ inst' = EmptyDict
  /\ call' = [cls |-> c, args |-> args, kwargs |-> kwargs]
  /\ log' = <<Event(Frame("wrap", c, args, kwargs), 1, "call")>>
  /\ status' = "running"
  /\ attached' = 0
  /\ UNCHANGED <<fnVars, fwdVars>>

\* lines 167-168: the pre-hook runs and returns (a "pre" event: it returned)
PreInit ==
  /\ status = "running" /\ Step = "pre"
  /\ inst' = HookEffect(inst, "_pre_init")
  /\ log' = Append(log, Event(Top, Depth, "pre"))
  /\ stack' = Advance(stack)
  /\ UNCHANGED <<call, status, attached, fnVars, fwdVars>>

\* lines 172-173: the post-hook runs and returns
PostInit ==
  /\ status = "running" /\ Step = "post"
  /\ inst' = HookEffect(inst, "_post_init")
  /\ log' = Append(log, Event(Top, Depth, "post"))
  /\ stack' = Advance(stack)
  /\ UNCHANGED <<call, status, attached, fnVars, fwdVars>>

\* lines 168, 173: a hook raises; nothing catches it
HookRaises ==
  /\ status = "running" /\ Step \in {"pre", "post"}
  /\ log' = Append(log, Event(Top, Depth, "raise"))
  /\ stack' = <<>>
  /\ status' = "raised"
  /\ UNCHANGED <<inst, call, attached, fnVars, fwdVars>>

\* line 170: init_func(self, *args, **kwargs)
CallInit ==
  /\ status = "running" /\ Step = "init"
  /\ LET callee == init_func(Top.cls)
         f      == Frame(callee.kind, callee.cls, Top.args, Top.kwargs)
     IN  /\ stack' = Append(Advance(stack), f)
         /\ log' = Append(Append(log, Event(Top, Depth, "init")),
                          Event(f, Depth + 1, "call"))
  /\ UNCHANGED <<inst, call, status, attached, fnVars, fwdVars>>

\* the call of a declared constructor cannot bind its arguments: TypeError
BindFails ==
  /\ status = "running" /\ Top.kind = "body" /\ Top.pc = 1
  /\ ~BindOk(Sig[Top.cls], Top.args, Top.kwargs)
  /\ log' = Append(log, Event(Top, Depth, "raise"))
  /\ stack' = <<>>
  /\ status' = "raised"
  /\ UNCHANGED <<inst, call, attached, fnVars, fwdVars>>

\* the body of a declared constructor starts; Sub's calls super().__init__,
\* which is the wrapper installed on M
BodyEnter ==
  /\ status = "running" /\ Top.kind = "body" /\ Top.pc = 1
  /\ BindOk(Sig[Top.cls], Top.args, Top.kwargs)
  /\ LET sig   == Sig[Top.cls]
         bound == fn_args_to_dict(sig.args, sig.defaults, Top.args, Top.kwargs)
         f     == Frame("wrap", Base[Top.cls],
                        SuperArgs(Top.cls, bound), SuperKwargs(Top.cls, bound))
     IN  IF CallsSuper(Top.cls)
         THEN /\ stack' = Append(Advance(stack), f)
              /\ log' = Append(log, Event(f, Depth + 1, "call"))
         ELSE /\ stack' = Advance(stack)
              /\ log' = log
  /\ UNCHANGED <<inst, call, status, attached, fnVars, fwdVars>>

\* the body of a declared constructor returns to the wrapper that called it
BodyReturn ==
  /\ status = "running" /\ Top.kind = "body" /\ Top.pc = 2
  /\ stack' = Pop(stack)
  /\ log' = Append(log, Event(stack[Depth - 1], Depth - 1, "init_ok"))
  /\ UNCHANGED <<inst, call, status, attached, fnVars, fwdVars>>

\* the body of a declared constructor raises
BodyRaises ==
  /\ status = "running" /\ Top.kind = "body" /\ Top.pc = 2
  /\ log' = Append(log, Event(Top, Depth, "raise"))
  /\ stack' = <<>>
  /\ status' = "raised"
  /\ UNCHANGED <<inst, call, attached, fnVars, fwdVars>>

\* lines 174-177, and the return of __impl__ to its caller
Attach ==
  /\ status = "running" /\ Step = "attach"
  /\ inst' = ("init_config" :> InitConfig(Top.args, Top.kwargs, call.cls)) @@ inst
  /\ attached' = attached + 1
  /\ stack' = Pop(stack)
  /\ status' = IF Depth = 1 THEN "done" ELSE "running"
  /\ log' = IF Depth > 1 /\ stack[Depth - 1].kind = "wrap"
            THEN Append(Append(log, Event(Top, Depth, "attach")),
                        Event(stack[Depth - 1], Depth - 1, "init_ok"))
            ELSE Append(log, Event(Top, Depth, "attach"))
  /\ UNCHANGED <<call, fnVars, fwdVars>>

NextInit ==
  \/ \E c \in Classes, args \in SeqsUpTo(ArgVals, MaxCallArgs),
        kwargs \in DictsOver(KwNames, ArgVals) : Construct(c, args, kwargs)
  \/ PreInit
  \/ PostInit
  \/ HookRaises
  \/ CallInit
  \/ BindFails
  \/ BodyEnter
  \/ BodyReturn
  \/ BodyRaises
  \/ Attach

(***************************************************************************)
(* Bounds and inputs of the calls of fn_args_to_dict                       *)
(***************************************************************************)
MaxParams == 3
MaxArgs   == 3
ParamNames == <<"a", "b", "c", "d", "e">>
DefVals    == {2, 3}
FnKwNames  == {"a", "c", "z"}
FnKwVals   == {7, 9}

FnInputs ==
  UNION {[spec_args     : {SubSeq(ParamNames, 1, k)},
          spec_defaults : SeqsUpTo(DefVals, k),
          args          : SeqsUpTo(ArgVals, MaxArgs),
          kwargs        : DictsOver(FnKwNames, FnKwVals)] : k \in 0..MaxParams}

FnIdle ==
  /\ fn_in = [spec_args |-> <<>>, spec_defaults |-> <<>>, args |-> <<>>,
              kwargs |-> EmptyDict]
  /\ fn_out = EmptyDict
  /\ fn_pc = "idle"

InitFn ==
  /\ fn_in \in FnInputs
  /\ fn_out = EmptyDict
  /\ fn_pc = "call"

FnCall ==
  /\ fn_pc = "call"
  /\ fn_out' = fn_args_to_dict(fn_in.spec_args, fn_in.spec_defaults,
                               fn_in.args, fn_in.kwargs)
  /\ fn_pc' = "done"
  /\ UNCHANGED <<fn_in, initVars, fwdVars>>

(***************************************************************************)
(* adapt_stale_fwd_patch and InitTrackerMeta.__setattr__                   *)
(* A callable is a plain function (its declared extension parameters, next *)
(* to self and x), a StaticFunction object, or a function under the        *)
(* wrap_fwd closures made for it, innermost first: each closure is the     *)
(* new_args it pops.                                                       *)
(***************************************************************************)
\* line 81
ExtNames == {"output_hidden_states", "output_attentions", "return_dict"}

PlainFn(S) == [kind |-> "function", params |-> S, wraps |-> <<>>]
StaticFn   == [kind |-> "StaticFunction", params |-> {}, wraps |-> <<>>]
\* the extension parameters of the functions the model assigns: none, those of
\* the declared forward, one the declared forward lacks, and all three
FnParamSets == {{}, {"output_attentions", "return_dict"},
                {"output_hidden_states"}, ExtNames}
PlainFns   == {PlainFn(S) : S \in FnParamSets}

IsWrapper(v) == v.wraps # <<>>

\* type(value).__name__: a wrap_fwd closure is a function
TypeName(v) == IF IsWrapper(v) THEN "function" ELSE v.kind

\* a slip: the StaticFunction test is dropped
NeverStatic(v) == FALSE

\* line 63
IsStaticFunction(v) == TypeName(v) = "StaticFunction"

\* inspect.getfullargspec(v).args: the declared named parameters.  The closure
\* wrap_fwd(*args, **kwargs) declares none (getfullargspec does not follow
\* __wrapped__); a StaticFunction object is called through __call__(self, ...)
SpecArgs(v) ==
  IF IsWrapper(v) THEN {}
  ELSE IF v.kind = "StaticFunction" THEN {"self"}
  ELSE {"self", "x"} \cup v.params

\* a slip: the test `arg in spec_args` is dropped
MissingOfPatchOnly(patch_spec_args, spec_args) ==
  {arg \in ExtNames : arg \notin patch_spec_args}

\* lines 79-83
NewArgs(patch_spec_args, spec_args) ==
  {arg \in ExtNames : arg \notin patch_spec_args /\ arg \in spec_args}

\* a slip: the keywords are passed on as received
KeepKw(kwargs, new_args) == kwargs

\* lines 114-115: kwargs.pop(arg, None) for each of new_args
StripKw(kwargs, new_args) == DictPop(kwargs, new_args)

\* line 116: value(*args, **kwargs); the owner is a class, not a Layer instance,
\* so the branch of lines 104-108 is not taken
PassArgs(args) == args

\* lines 112-118: the closure made for value
wrap_fwd(value, new_args) == [value EXCEPT !.wraps = Append(@, new_args)]

\* lines 53-119; forward is self.forward, the class's current forward
adapt_stale_fwd_patch(forward, name, value) ==
  IF name = "forward"
  THEN IF IsStaticFunction(value)
       THEN [value |-> value, warnings |-> 0, new_args |-> {}]
       ELSE LET new_args == NewArgs(SpecArgs(value), SpecArgs(forward))
            IN  IF new_args # {}
                THEN [value |-> wrap_fwd(value, new_args), warnings |-> 1,
                      new_args |-> new_args]
                ELSE [value |-> value, warnings |-> 0, new_args |-> {}]
  ELSE [value |-> value, warnings |-> 0, new_args |-> {}]

\* a call of a callable: each closure pops its new_args and calls what it wraps;
\* a plain function raises TypeError on a keyword it does not declare
RECURSIVE Invoke(_, _, _)
Invoke(f, args, kwargs) ==
  IF IsWrapper(f)
  THEN LET n == Len(f.wraps)
       IN  Invoke([f EXCEPT !.wraps = SubSeq(@, 1, n - 1)],
                  PassArgs(args), StripKw(kwargs, f.wraps[n]))
  ELSE [target |-> f, dargs |-> args, dkwargs |-> kwargs,
        raised |-> f.kind = "function" /\ ~(DOMAIN kwargs \subseteq f.params)]

(***************************************************************************)
(* Bounds and inputs of the assignments and calls                          *)
(***************************************************************************)
MaxWraps == 2
FwdArgs  == {<<0, 5>>}
FwdKwargs == DictsOver(ExtNames, {TRUE})
AttrNames == {"forward", "other"}

NoResult == [target |-> StaticFn, dargs |-> <<>>, dkwargs |-> EmptyDict,
             raised |-> FALSE]

LastOf(op, name, value, prev, r, args, kwargs, res) ==
  [op |-> op, name |-> name, value |-> value, prev |-> prev,
   stored |-> r.value, warnings |-> r.warnings,
   args |-> args, kwargs |-> kwargs, res |-> res]

NoLast(f) ==
  LastOf("none", "forward", f, f, [value |-> f, warnings |-> 0], <<>>,
         EmptyDict, NoResult)

\* the forward the class body declares:
\* forward(self, x, output_attentions=False, return_dict=False)
DeclaredForward == PlainFn({"output_attentions", "return_dict"})

FwdIdle ==
  /\ declared = StaticFn
  /\ clsAttrs = [n \in AttrNames |-> StaticFn]
  /\ sets = <<>>
  /\ last = NoLast(StaticFn)

InitFwd ==
  /\ declared = DeclaredForward
  /\ clsAttrs = [n \in AttrNames |-> declared]
  /\ sets = <<>>
  /\ last = NoLast(declared)

\* lines 181-183: cls.<name> = value
SetAttr(name, value) ==
  LET r == adapt_stale_fwd_patch(clsAttrs["forward"], name, value)
  IN  /\ Len(r.value.wraps) <= MaxWraps
      /\ clsAttrs' = [clsAttrs EXCEPT ![name] = r.value]
      /\ last' = LastOf("set", name, value, clsAttrs["forward"], r, <<>>,
                        EmptyDict, NoResult)
      /\ sets' = LET e == [value |-> value, prev |-> clsAttrs["forward"],
                                stored |-> r.value, new_args |-> r.new_args]
                 IN  IF name # "forward" THEN sets
                     ELSE IF value = clsAttrs["forward"]
                     THEN LastN(Append(sets, e), 2)
                     ELSE <<e>>
      /\ UNCHANGED <<declared, fnVars, initVars>>

\* line 75: inspect.getfullargspec(self.forward) when the class's forward is a
\* StaticFunction object and the value is not one.  The type is not part of this
\* file: for one that defines __get__ (a method descriptor to inspect)
\* getfullargspec raises TypeError and nothing is stored; for one that does not,
\* SetAttr applies with the args of __call__.  Both are allowed.
SetAttrReflectionFails(name, value) ==
  /\ name = "forward"
  /\ ~IsStaticFunction(value)
  /\ IsStaticFunction(clsAttrs["forward"])
  /\ last' = LastOf("raise", name, value, clsAttrs["forward"],
                    [value |-> clsAttrs["forward"], warnings |-> 0], <<>>,
                    EmptyDict, NoResult)
  /\ UNCHANGED <<clsAttrs, declared, sets, fnVars, initVars>>

\* instance.forward(x, **kwargs): the stored callable receives (instance, x)
CallForward(args, kwargs) ==
  LET f == clsAttrs["forward"]
  IN  /\ last' = LastOf("call", "forward", f, f, [value |-> f, warnings |-> 0],
                        args, kwargs, Invoke(f, args, kwargs))
      /\ UNCHANGED <<clsAttrs, declared, sets, fnVars, initVars>>

NextFwd ==
  \/ \E name \in AttrNames,
        value \in PlainFns \cup {StaticFn, clsAttrs["forward"], clsAttrs["other"]} :
        SetAttr(name, value)
  \/ \E value \in PlainFns \cup {clsAttrs["other"]} :
        SetAttrReflectionFails("forward", value)
  \/ \E args \in FwdArgs, kwargs \in FwdKwargs : CallForward(args, kwargs)

(***************************************************************************)
(* Specifications                                                          *)
(***************************************************************************)
Init    == InitIdle /\ FnIdle /\ FwdIdle
Next    == NextInit
Spec    == Init /\ [][Next]_vars

StartFn == InitFn /\ InitIdle /\ FwdIdle
NextFn  == FnCall
SpecFn  == StartFn /\ [][NextFn]_vars

StartFwd == InitFwd /\ InitIdle /\ FnIdle
SpecFwd  == StartFwd /\ [][NextFwd]_vars

(***************************************************************************)
(* Properties                                                              *)
(***************************************************************************)
DictEq(d, e) == DOMAIN d = DOMAIN e /\ \A k \in DOMAIN d : d[k] = e[k]

IsPrefix(s, t) == Len(s) <= Len(t) /\ \A i \in 1..Len(s) : s[i] = t[i]

\* C1: for a signature of k names whose last d carry defaults, p <= k positional
\* values and keywords K, fn_args_to_dict returns the mapping whose keys are the
\* first p names, the default-bearing names and K's names, and nothing else; a
\* name of K has K's value (also when it was filled positionally or by default,
\* also when the signature lacks it), a first-p name not in K has its positional
\* value, a default-bearing name beyond p not in K has its declared default.
C1_MergedMapping ==
  (fn_pc = "done" /\ Len(fn_in.args) <= Len(fn_in.spec_args)) =>
    LET names == fn_in.spec_args
        k     == Len(names)
        d     == Len(fn_in.spec_defaults)
        p     == Len(fn_in.args)
        K     == fn_in.kwargs
    IN  /\ DOMAIN fn_out = {names[i] : i \in 1..p}
                             \cup {names[i] : i \in (k - d + 1)..k}
                             \cup DOMAIN K
        /\ \A n \in DOMAIN K : fn_out[n] = K[n]
        /\ \A i \in 1..p : names[i] \notin DOMAIN K => fn_out[names[i]] = fn_in.args[i]
        /\ \A i \in (k - d + 1)..k :
             (i > p /\ names[i] \notin DOMAIN K)
               => fn_out[names[i]] = fn_in.spec_defaults[i - (k - d)]

\* a call where every layer acts: a (default-bearing) is filled positionally and
\* overridden by a keyword, b keeps its default, c's default is replaced by a
\* keyword, z is a keyword the signature lacks
C1_Witness ==
  /\ fn_pc = "done"
  /\ fn_in.spec_args = <<"a", "b", "c">>
  /\ Len(fn_in.spec_defaults) = 3
  /\ Len(fn_in.args) = 1
  /\ DOMAIN fn_in.kwargs = {"a", "c", "z"}
  /\ fn_in.kwargs["a"] # fn_in.args[1]
  /\ fn_out["a"] = fn_in.kwargs["a"]
  /\ fn_out["b"] = fn_in.spec_defaults[2]

ExampleCall == call = [cls |-> "M", args |-> <<1>>, kwargs |-> [k \in {"c"} |-> 9]]

\* C2 as stated: M(a, b=2, c=3) constructed by M(1, c=9) leaves the configuration
\* mapping {a: 1, b: 2, c: 9} on the instance.
C2_MergedRecordOnInstance ==
  (status = "done" /\ ExampleCall) =>
    DictEq(inst["init_config"], ("a" :> 1) @@ ("b" :> 2) @@ ("c" :> 9))

\* C2 as amended: M(1, c=9) leaves {c: 9, init_args: (1,), init_class: "M"} on the
\* instance: the positional value is recorded only in the init_args tuple, the
\* unsupplied default b is not recorded, the keyword c=9 is recorded.
C2_KeywordRecordOnInstance ==
  (status = "done" /\ ExampleCall) =>
    DictEq(inst["init_config"],
           ("c" :> 9) @@ ("init_args" :> <<1>>) @@ ("init_class" :> "M"))

C2_Witness == status = "done" /\ ExampleCall /\ "init_config" \in DOMAIN inst

\* the points where code outside the wrapper looks at the instance: before and
\* after a construction, and while a hook or the rest of a declared constructor
\* is about to run
Observable ==
  \/ status # "running"
  \/ Top.kind = "body" /\ Top.pc = 2
  \/ Step \in {"pre", "post"}

\* C3: wherever the instance can be looked at, it carries init_config if and only
\* if the outermost constructor call has returned normally (so not while a
\* constructor of the chain is still running, and not after one has raised).
C3_RecordIffConstructed ==
  Observable => (("init_config" \in DOMAIN inst) <=> (status = "done"))

WrapEvents(d) ==
  LET AtDepth(e) == e.depth = d /\ e.kind = "wrap" /\ e.step # "raise"
  IN  SelectSeq(log, AtDepth)

ExpectedSteps(c) ==
  <<"call">>
  \o (IF pre_init_func(c) # "None" THEN <<"pre">> ELSE <<>>)
  \o <<"init", "init_ok">>
  \o (IF post_init_func(c) # "None" THEN <<"post">> ELSE <<>>)
  \o <<"attach">>

CountSteps(step) ==
  LET Is(e) == e.step = step IN Len(SelectSeq(log, Is))

\* C4: every call of the wrapper runs pre-hook (if any), original constructor,
\* post-hook (if any), attach, in that order, each only after the one before
\* returned normally; the hooks and the original constructor get the call's
\* arguments as supplied; a raise is the last thing that happens (it leaves the
\* wrapper, no post-hook and no attach of that wrapper follows), and what the
\* pre-hooks already did to the instance remains.
C4_WrapperOrder ==
  /\ \A d \in 1..Len(log) :
       LET ev == WrapEvents(d)
       IN  ev # <<>> =>
             /\ IsPrefix([i \in 1..Len(ev) |-> ev[i].step], ExpectedSteps(ev[1].cls))
             /\ \A i \in 1..Len(ev) :
                  /\ ev[i].cls = ev[1].cls
                  /\ ev[i].args = ev[1].args
                  /\ DictEq(ev[i].kwargs, ev[1].kwargs)
  /\ \A i \in 1..Len(log) :
       /\ (log[i].step = "init" /\ log[i].kind = "wrap") =>
            /\ i < Len(log)
            /\ log[i + 1].step = "call"
            /\ log[i + 1].depth = log[i].depth + 1
            /\ log[i + 1].args = log[i].args
            /\ DictEq(log[i + 1].kwargs, log[i].kwargs)
       /\ log[i].step = "raise" => (i = Len(log) /\ status = "raised" /\ stack = <<>>)
  /\ status = "raised" => log[Len(log)].step = "raise"
  /\ (status # "idle" /\ CountSteps("pre") > 0) =>
       ("_pre_init" \in DOMAIN inst /\ inst["_pre_init"] >= 1)

\* the constructor of Sub raises after M's constructor, hooks and attach ran
C4_Witness ==
  /\ status = "raised"
  /\ call.cls = "Sub"
  /\ log[Len(log)].kind = "body"
  /\ log[Len(log)].cls = "Sub"
  /\ CountSteps("pre") = 2
  /\ CountSteps("post") = 1
  /\ "_pre_init" \in DOMAIN inst

\* C8: after a construction call with positional arguments A and keywords K
\* completes, init_config is exactly K's pairs, plus init_class = the name of the
\* class constructed, plus init_args = A if and only if A is not empty.
C8_StoredRecord ==
  status = "done" =>
    LET cfg == inst["init_config"]
    IN  /\ DOMAIN cfg = DOMAIN call.kwargs \cup {"init_class"}
                          \cup (IF call.args # <<>> THEN {"init_args"} ELSE {})
        /\ \A k \in DOMAIN call.kwargs : cfg[k] = call.kwargs[k]
        /\ cfg["init_class"] = call.cls
        /\ call.args # <<>> => cfg["init_args"] = call.args

\* a class that inherits its constructor at depth two, built with a positional
\* value that fills a and a keyword that replaces a default
C8_Witness ==
  /\ status = "done"
  /\ call.cls = "Deep"
  /\ call.args # <<>>
  /\ DOMAIN call.kwargs = {"c"}
  /\ attached = 3

\* C9: a wrapper is never placed around an inherited, already wrapped constructor,
\* and one construction call attaches init_config exactly once.
C9_WrappedOnceAttachedOnce ==
  /\ \A i \in 1..(Len(stack) - 1) :
       ~(stack[i].kind = "wrap" /\ stack[i + 1].kind = "wrap")
  /\ attached <= 1
  /\ status = "done" => attached = 1

\* the extension parameters the forward current at an assignment declares and
\* the assigned value lacks
Missing(e) == {arg \in ExtNames : arg \in SpecArgs(e.prev) /\ arg \notin SpecArgs(e.value)}

IsPlain(v) == v.kind = "function" /\ ~IsWrapper(v)

\* what a call with (args, kwargs) of a callable that strips S in front of patch
\* must deliver
StripsExactly(e, S) ==
  /\ last.res.target = e.value
  /\ last.res.dargs = last.args
  /\ DictEq(last.res.dkwargs,
            [k \in (DOMAIN last.kwargs) \ S |-> last.kwargs[k]])
  /\ (DOMAIN last.kwargs \subseteq SpecArgs(e.prev)) => ~last.res.raised

\* C5: when a plain function lacking extension parameters the current forward
\* declares was assigned as forward, a call of the stored callable invokes that
\* function with the same positional arguments and the keywords minus the
\* missing names (all of them when none of the missing names is given), and a
\* call the current forward would have accepted raises nothing.
C5_StalePatchAdapted ==
  (last.op = "call" /\ sets # <<>>) =>
    LET e == sets[Len(sets)]
    IN  (IsPlain(e.value) /\ Missing(e) # {}) => StripsExactly(e, Missing(e))

\* the example: forward(self, x, output_attentions=False, return_dict=False),
\* patch forward(self, x), wrapped(instance, 5, output_attentions=True)
C5_Witness ==
  /\ last.op = "call"
  /\ Len(sets) = 1
  /\ sets[1].prev = DeclaredForward
  /\ sets[1].value = PlainFn({})
  /\ last.args = <<0, 5>>
  /\ DOMAIN last.kwargs = {"output_attentions"}
  /\ last.res.target = PlainFn({})
  /\ last.res.dkwargs = EmptyDict
  /\ ~last.res.raised

\* C6: an assignment stores the very object assigned, with no warning, exactly
\* when the name is not forward, or the value is a StaticFunction, or no
\* extension parameter is both in the current forward's parameter list and
\* absent from the value's; otherwise it stores a new wrapper around the value
\* and emits exactly one warning.
C6_StoredObject ==
  last.op = "set" =>
    LET e == [prev |-> last.prev, value |-> last.value]
        asIs == \/ last.name # "forward"
                \/ TypeName(last.value) = "StaticFunction"
                \/ Missing(e) = {}
    IN  /\ clsAttrs[last.name] = last.stored
        /\ IF asIs
           THEN last.stored = last.value /\ last.warnings = 0
           ELSE /\ last.stored # last.value
                /\ Len(last.stored.wraps) = Len(last.value.wraps) + 1
                /\ SubSeq(last.stored.wraps, 1, Len(last.value.wraps)) = last.value.wraps
                /\ last.stored.kind = last.value.kind
                /\ last.stored.params = last.value.params
                /\ last.warnings = 1

\* a callable stored earlier (a wrapper) is assigned while forward is a plain
\* function again: it is wrapped once more, with one warning
C6_Witness ==
  /\ last.op = "set"
  /\ last.name = "forward"
  /\ IsWrapper(last.value)
  /\ IsPlain(last.prev)
  /\ last.warnings = 1
  /\ Len(last.stored.wraps) = 2

\* C7: a stale patch is assigned as forward, then the callable that assignment
\* stored is assigned as forward again: a call of what is stored now still
\* reaches the patch with exactly the names the patch was missing removed.
C7_ReassignedWrapper ==
  (last.op = "call" /\ Len(sets) = 2) =>
    LET e1 == sets[1]
        e2 == sets[2]
    IN  (IsPlain(e1.value) /\ Missing(e1) # {} /\ e2.value = e1.stored)
          => StripsExactly(e1, Missing(e1))

C7_Witness ==
  /\ last.op = "call"
  /\ Len(sets) = 2
  /\ IsPlain(sets[1].value)
  /\ Missing(sets[1]) = {"output_attentions", "return_dict"}
  /\ sets[2].value = sets[1].stored
  /\ DOMAIN last.kwargs = {"output_attentions", "output_hidden_states"}
  /\ DOMAIN last.res.dkwargs = {"output_hidden_states"}
  /\ ~last.res.raised

\* C10: after any assignments of forward, a call of the stored forward never
\* delivers an extension keyword the declared forward accepts to a function
\* whose parameter list does not declare it.
C10_LaterPatchesProtected ==
  last.op = "call" =>
    \A k \in (DOMAIN last.kwargs) \cap ExtNames \cap SpecArgs(declared) :
      (k \in DOMAIN last.res.dkwargs /\ last.res.target.kind = "function")
        => k \in SpecArgs(last.res.target)

====
